---------------------------- MODULE Spec2Model ----------------------------
(***************************************************************************)
(* cdlib/readwrite/io.py: write_community_csv, read_community_csv,         *)
(* write_community_json, read_community_json and                           *)
(* read_community_from_json_string, over one destination file.             *)
(*                                                                         *)
(* Text is a sequence of cells.  A cell is a character, Ch("a"), or one    *)
(* JSON scalar lexeme (a number, a string, true/false/null) as json.dumps  *)
(* emits it; JSON punctuation and the blanks json.dumps puts after "," and *)
(* ":" are characters.  A Python value is a tagged record [t, v].          *)
(***************************************************************************)
EXTENDS Integers, Sequences, FiniteSets, TLC

\* ---------------------------------------------------------------- bounds
MaxIdLen == 1      \* characters of a node identifier written as CSV
MaxIds == 3        \* identifiers of a partition written as CSV
MaxText == 3       \* characters of an arbitrary source read as CSV
MaxNodes == 3      \* identifiers of a partition written as JSON

\* ------------------------------------------------------- Python values
Ch(c) == [t |-> "c", v |-> c]
PyInt(n) == [t |-> "int", v |-> n]
PyFloat(tenths) == [t |-> "float", v |-> tenths]
PyStrV(s) == [t |-> "str", v |-> s]
PyBool(b) == [t |-> "bool", v |-> b]
PyNone == [t |-> "none", v |-> 0]
PyTuple(s) == [t |-> "tuple", v |-> s]
PyList(s) == [t |-> "list", v |-> s]
PyDict(items) == [t |-> "dict", v |-> items]
\* a value json.dumps cannot encode (a set, a numpy integer)
PyObject == [t |-> "object", v |-> 0]
Item(k, x) == [k |-> k, x |-> x]

NL == Ch("\n")
Whitespace == {Ch(" "), Ch("\n"), Ch("\t"), Ch("\r")}

\* -------------------------------------------------- sequence helpers
RECURSIVE Flatten(_)
Flatten(ss) == IF ss = <<>> THEN <<>> ELSE Head(ss) \o Flatten(Tail(ss))

SeqsUpTo(S, n) == UNION {[1..k -> S] : k \in 0..n}

IsPrefixAt(s, d, i) ==
    /\ i + Len(d) - 1 <= Len(s)
    /\ \A j \in 1..Len(d) : s[i + j - 1] = d[j]

\* ------------------------------------------------------ str methods
\* str.rstrip(): every trailing whitespace character goes
RECURSIVE RStrip(_)
RStrip(s) ==
    IF s # <<>> /\ s[Len(s)] \in Whitespace
    THEN RStrip(SubSeq(s, 1, Len(s) - 1))
    ELSE s

RECURSIVE LStrip(_)
LStrip(s) == IF s # <<>> /\ Head(s) \in Whitespace THEN LStrip(Tail(s)) ELSE s

\* str.split(delimiter), delimiter non-empty: leftmost occurrences, empty
\* fields kept, [""] for the empty string
RECURSIVE Split(_, _)
Split(s, d) ==
    LET hits == {i \in 1..Len(s) : IsPrefixAt(s, d, i)}
    IN IF hits = {} THEN <<s>>
       ELSE LET i == CHOOSE h \in hits : \A g \in hits : h <= g
            IN <<SubSeq(s, 1, i - 1)>> \o Split(SubSeq(s, i + Len(d), Len(s)), d)

\* delimiter.join(parts)
RECURSIVE Join(_, _)
Join(d, parts) ==
    IF parts = <<>> THEN <<>>
    ELSE IF Len(parts) = 1 THEN parts[1]
    ELSE parts[1] \o d \o Join(d, Tail(parts))

\* iteration over a text file: one row per line, terminator kept
RECURSIVE Rows(_)
Rows(s) ==
    LET hits == {i \in 1..Len(s) : s[i] = NL}
    IN IF s = <<>> THEN <<>>
       ELSE IF hits = {} THEN <<s>>
       ELSE LET i == CHOOSE h \in hits : \A g \in hits : h <= g
            IN <<SubSeq(s, 1, i)>> \o Rows(SubSeq(s, i + 1, Len(s)))

DigitChars == <<"0", "1", "2", "3", "4", "5", "6", "7", "8", "9">>
IsDigit(c) == c.t = "c" /\ \E i \in 1..10 : DigitChars[i] = c.v
DigitVal(c) == (CHOOSE i \in 1..10 : DigitChars[i] = c.v) - 1

RECURSIVE Digits(_)
Digits(n) ==
    IF n < 10 THEN <<Ch(DigitChars[n + 1])>>
    ELSE Digits(n \div 10) \o <<Ch(DigitChars[(n % 10) + 1])>>

RECURSIVE DigitsVal(_)
DigitsVal(s) ==
    IF s = <<>> THEN 0
    ELSE 10 * DigitsVal(SubSeq(s, 1, Len(s) - 1)) + DigitVal(s[Len(s)])

\* str(x) of a node identifier
Str(x) ==
    CASE x.t = "str" -> x.v
      [] x.t = "int" -> Digits(x.v)
      [] x.t = "none" -> <<Ch("N"), Ch("o"), Ch("n"), Ch("e")>>
      [] OTHER -> <<Ch("?")>>

\* nodetype(token): the value, or the conversion error
Raise(kind) == [t |-> "raise", v |-> kind]
IsRaise(x) == x.t = "raise"

ApplyNodetype(nodetype, tok) ==
    IF nodetype = "str" THEN PyStrV(tok)
    ELSE LET body == RStrip(LStrip(tok))
         IN IF body # <<>> /\ \A i \in 1..Len(body) : IsDigit(body[i])
            THEN PyInt(DigitsVal(body))
            ELSE Raise("ValueError")

IsIterable(x) == x.t \in {"tuple", "list", "str", "dict"}

\* the elements a for loop, map() or tuple() draws from x
Iter(x) ==
    CASE x.t \in {"tuple", "list"} -> x.v
      [] x.t = "str" -> [i \in 1..Len(x.v) |-> PyStrV(<<x.v[i]>>)]
      [] x.t = "dict" -> [i \in 1..Len(x.v) |-> x.v[i].k]
      [] OTHER -> <<>>

\* tuple(x)
ToTuple(x) == IF IsIterable(x) THEN PyTuple(Iter(x)) ELSE Raise("TypeError")

\* ------------------------------------------------------------- dict
DictHas(d, k) == \E i \in 1..Len(d.v) : d.v[i].k = k
DictGet(d, k) == d.v[CHOOSE i \in 1..Len(d.v) : d.v[i].k = k].x
DictSet(items, k, x) ==
    IF \E i \in 1..Len(items) : items[i].k = k
    THEN [i \in 1..Len(items) |-> IF items[i].k = k THEN Item(k, x) ELSE items[i]]
    ELSE Append(items, Item(k, x))

\* ------------------------------------------------- the clustering object
\* an attribute named in absent raises AttributeError when read
Clustering(cls, communities, method_name, method_parameters, overlap, node_coverage, absent, allocation_matrix) ==
    [cls |-> cls, communities |-> communities, method_name |-> method_name,
     method_parameters |-> method_parameters, overlap |-> overlap,
     node_coverage |-> node_coverage, absent |-> absent,
     allocation_matrix |-> allocation_matrix]

\* NodeClustering(communities, graph, method_name, method_parameters=None,
\* overlap=False) with graph None: the fields as given, no coverage computed
NodeClustering(communities, method_name, method_parameters, overlap) ==
    Clustering("NodeClustering", communities, method_name, method_parameters,
               overlap, PyNone, {"allocation_matrix"}, PyNone)

\* ------------------------------------------------- write_community_csv
\* delimiter.join(list(map(str, community))) and "%s\n" % res
CsvLine(community, delimiter) ==
    LET ids == Iter(community)
    IN Join(delimiter, [i \in 1..Len(ids) |-> Str(ids[i])]) \o <<NL>>

\* everything one complete call writes
CsvText(communities, delimiter) ==
    LET cs == Iter(communities)
    IN Flatten([i \in 1..Len(cs) |-> CsvLine(cs[i], delimiter)])

\* -------------------------------------------------- read_community_csv
\* tuple(list(map(nodetype, row.rstrip().split(delimiter))))
RowCommunity(row, delimiter, nodetype) ==
    LET toks == Split(RStrip(row), delimiter)
        vals == [i \in 1..Len(toks) |-> ApplyNodetype(nodetype, toks[i])]
    IN IF \E i \in 1..Len(vals) : IsRaise(vals[i])
       THEN Raise("ValueError")
       ELSE PyTuple(vals)

\* the communities list after the rows of text, or the first error
CsvCommunities(text, delimiter, nodetype) ==
    LET rows == Rows(text)
        coms == [i \in 1..Len(rows) |-> RowCommunity(rows[i], delimiter, nodetype)]
    IN IF \E i \in 1..Len(coms) : IsRaise(coms[i])
       THEN Raise("ValueError")
       ELSE PyList(coms)

\* ------------------------------------------------------- json.dumps
Lit(name) == [t |-> "lit", v |-> name]
Chars(names) == [i \in 1..Len(names) |-> Ch(names[i])]

\* the key of a JSON object: a str as it is, an int, float, bool or None
\* coerced to its JSON text
KeyText(k) ==
    CASE k.t = "str" -> k.v
      [] k.t = "int" -> Digits(k.v)
      [] k.t = "float" -> Digits(k.v \div 10) \o <<Ch(".")>> \o Digits(k.v % 10)
      [] k.t = "bool" -> IF k.v THEN Chars(<<"t", "r", "u", "e">>)
                         ELSE Chars(<<"f", "a", "l", "s", "e">>)
      [] k.t = "none" -> Chars(<<"n", "u", "l", "l">>)
      [] OTHER -> <<>>

\* whether json.dumps can encode x (TypeError otherwise)
RECURSIVE Serializable(_)
Serializable(x) ==
    CASE x.t \in {"int", "float", "str", "bool", "none"} -> TRUE
      [] x.t \in {"tuple", "list"} ->
            \A i \in 1..Len(x.v) : Serializable(x.v[i])
      [] x.t = "dict" ->
            \A i \in 1..Len(x.v) :
                /\ x.v[i].k.t \in {"str", "int", "float", "bool", "none"}
                /\ Serializable(x.v[i].x)
      [] OTHER -> FALSE

\* the text of a serializable x, separators ", " and ": "
RECURSIVE Encode(_)
Encode(x) ==
    CASE x.t \in {"int", "float", "str"} -> <<x>>
      [] x.t = "bool" -> <<Lit(IF x.v THEN "true" ELSE "false")>>
      [] x.t = "none" -> <<Lit("null")>>
      [] x.t \in {"tuple", "list"} ->
            <<Ch("[")>>
            \o Join(<<Ch(","), Ch(" ")>>, [i \in 1..Len(x.v) |-> Encode(x.v[i])])
            \o <<Ch("]")>>
      [] x.t = "dict" ->
            <<Ch("{")>>
            \o Join(<<Ch(","), Ch(" ")>>,
                    [i \in 1..Len(x.v) |->
                        <<PyStrV(KeyText(x.v[i].k)), Ch(":"), Ch(" ")>>
                        \o Encode(x.v[i].x)])
            \o <<Ch("}")>>

JsonDumps(x) ==
    IF Serializable(x) THEN [exc |-> "", text |-> Encode(x)]
    ELSE [exc |-> "TypeError", text |-> <<>>]

\* ------------------------------------------------------- json.loads
ParseOk(val, rest) == [ok |-> TRUE, val |-> val, rest |-> rest]
ParseFail == [ok |-> FALSE, val |-> PyNone, rest |-> <<>>]

\* the longest run of digit characters at the head of s
RECURSIVE DigitRun(_)
DigitRun(s) ==
    IF s # <<>> /\ IsDigit(Head(s)) THEN <<Head(s)>> \o DigitRun(Tail(s)) ELSE <<>>

RECURSIVE ParseValue(_), ParseElements(_, _), ParseMembers(_, _)
ParseValue(s0) ==
    LET s == LStrip(s0)
    IN IF s = <<>> THEN ParseFail
       ELSE LET c == Head(s)
            IN CASE c.t \in {"int", "float", "str"} -> ParseOk(c, Tail(s))
                 [] c.t = "lit" ->
                       ParseOk(CASE c.v = "true" -> PyBool(TRUE)
                                 [] c.v = "false" -> PyBool(FALSE)
                                 [] OTHER -> PyNone,
                               Tail(s))
                 [] IsDigit(c) ->
                       LET run == DigitRun(s)
                       IN ParseOk(PyInt(DigitsVal(run)), SubSeq(s, Len(run) + 1, Len(s)))
                 [] c = Ch("[") ->
                       LET r == LStrip(Tail(s))
                       IN IF r # <<>> /\ Head(r) = Ch("]")
                          THEN ParseOk(PyList(<<>>), Tail(r))
                          ELSE ParseElements(Tail(s), <<>>)
                 [] c = Ch("{") ->
                       LET r == LStrip(Tail(s))
                       IN IF r # <<>> /\ Head(r) = Ch("}")
                          THEN ParseOk(PyDict(<<>>), Tail(r))
                          ELSE ParseMembers(Tail(s), <<>>)
                 [] OTHER -> ParseFail

\* array elements after "[" or ",": every array is read as a list
ParseElements(s, acc) ==
    LET e == ParseValue(s)
        r == LStrip(e.rest)
    IN IF ~e.ok \/ r = <<>> THEN ParseFail
       ELSE IF Head(r) = Ch(",") THEN ParseElements(Tail(r), Append(acc, e.val))
       ELSE IF Head(r) = Ch("]") THEN ParseOk(PyList(Append(acc, e.val)), Tail(r))
       ELSE ParseFail

\* object members after "{" or ",": keys are strings, a repeated key keeps
\* its last value
ParseMembers(s, acc) ==
    LET k == LStrip(s)
        c == IF k = <<>> THEN k ELSE LStrip(Tail(k))
        e == IF c = <<>> THEN ParseFail ELSE ParseValue(Tail(c))
        r == LStrip(e.rest)
    IN IF k = <<>> \/ c = <<>> THEN ParseFail
       ELSE IF Head(k).t # "str" \/ Head(c) # Ch(":") THEN ParseFail
       ELSE IF ~e.ok \/ r = <<>> THEN ParseFail
       ELSE IF Head(r) = Ch(",")
            THEN ParseMembers(Tail(r), DictSet(acc, Head(k), e.val))
       ELSE IF Head(r) = Ch("}")
            THEN ParseOk(PyDict(DictSet(acc, Head(k), e.val)), Tail(r))
       ELSE ParseFail

\* json.loads(text) and json.load(f): one document, nothing after it
JsonLoads(text) ==
    LET e == ParseValue(text)
    IN IF e.ok /\ LStrip(e.rest) = <<>> THEN [exc |-> "", val |-> e.val]
       ELSE [exc |-> "JSONDecodeError", val |-> PyNone]

\* a string whose characters play no part: one cell holding all of it
Word(w) == PyStrV(<<Ch(w)>>)

\* ------------------------------------------- write_community_json, 76-84
RequiredAttrs ==
    <<"communities", "method_name", "method_parameters", "overlap", "node_coverage">>

\* the partition mapping: the five fields, then allocation_matrix when the
\* object has one (its AttributeError is swallowed)
PartitionDict(obj) ==
    LET five == <<Item(Word("communities"), obj.communities),
                  Item(Word("algorithm"), obj.method_name),
                  Item(Word("params"), obj.method_parameters),
                  Item(Word("overlap"), obj.overlap),
                  Item(Word("coverage"), obj.node_coverage)>>
    IN PyDict(IF "allocation_matrix" \in obj.absent THEN five
              ELSE Append(five, Item(Word("allocation_matrix"), obj.allocation_matrix)))

\* lines 76-84: js_dmp, or the exception raised before the destination is opened
JsDmp(obj) ==
    IF \E i \in 1..Len(RequiredAttrs) : RequiredAttrs[i] \in obj.absent
    THEN [exc |-> "AttributeError", text |-> <<>>]
    ELSE JsonDumps(PartitionDict(obj))

\* ------------------------------- read_community_json, 109-127 (151-169)
NoResult == Clustering("", PyNone, PyNone, PyNone, PyNone, PyNone, {}, PyNone)
Raised(kind) == [exc |-> kind, nc |-> NoResult]
Returned(nc) == [exc |-> "", nc |-> nc]

\* tuple(c) of every c, or TypeError
TupleEach(xs) ==
    LET ts == [i \in 1..Len(xs) |-> ToTuple(xs[i])]
    IN IF \E i \in 1..Len(ts) : IsRaise(ts[i]) THEN Raise("TypeError") ELSE PyList(ts)

\* lines 117-125 with one community left as it was read
EdgeCommunitiesFirstOnly(communities) ==
    LET first == TupleEach(communities.v[1].v)
    IN IF IsRaise(first) THEN Raise("TypeError")
       ELSE PyList([i \in 1..Len(communities.v) |->
                       IF i = 1 THEN PyTuple(first.v) ELSE communities.v[i]])

\* lines 118-124: cms, every element of every community made a tuple
EdgeCommunities(communities) ==
    LET cs == [i \in 1..Len(communities.v) |-> TupleEach(communities.v[i].v)]
    IN IF \E i \in 1..Len(cs) : IsRaise(cs[i]) THEN Raise("TypeError")
       ELSE PyList([i \in 1..Len(cs) |-> PyTuple(cs[i].v)])

\* lines 113-115 with the matrix never attached
FuzzifyNoMatrix(nc, coms) ==
    IF DictHas(coms, Word("allocation_matrix"))
    THEN [nc EXCEPT !.cls = "FuzzyNodeClustering"]
    ELSE nc

\* lines 113-115: allocation_matrix in the document makes the result fuzzy
Fuzzify(nc, coms) ==
    IF DictHas(coms, Word("allocation_matrix"))
    THEN [nc EXCEPT !.cls = "FuzzyNodeClustering",
                    !.absent = {},
                    !.allocation_matrix = DictGet(coms, Word("allocation_matrix"))]
    ELSE nc

\* lines 113-127 on the constructed nc
Reclassify(nc, coms) ==
    LET fz == Fuzzify(nc, coms)
    IN IF fz.communities.v = <<>> THEN Raised("IndexError")
       ELSE IF fz.communities.v[1].v = <<>> THEN Raised("IndexError")
       ELSE IF fz.communities.v[1].v[1].t = "list"
            THEN LET cms == EdgeCommunities(fz.communities)
                 IN IF IsRaise(cms) THEN Raised("TypeError")
                    ELSE Returned([fz EXCEPT !.communities = cms,
                                             !.cls = "EdgeClustering"])
       ELSE Returned(fz)

\* coms.get(key)
SubscriptOrNone(coms, key) ==
    [exc |-> "",
     val |-> IF DictHas(coms, Word(key)) THEN DictGet(coms, Word(key)) ELSE PyNone]

\* coms[key]
Subscript(coms, key) ==
    IF DictHas(coms, Word(key)) THEN [exc |-> "", val |-> DictGet(coms, Word(key))]
    ELSE [exc |-> "KeyError", val |-> PyNone]

\* lines 109-110 without line 111
ConstructNoCoverage(communities, algorithm, params, overlap, coverage) ==
    NodeClustering(communities, algorithm, params, overlap)

\* lines 109-111: the NodeClustering and its node_coverage
Construct(communities, algorithm, params, overlap, coverage) ==
    [NodeClustering(communities, algorithm, params, overlap)
        EXCEPT !.node_coverage = coverage]

\* lines 109-127 on the parsed document coms
ReadDoc(coms) ==
    IF coms.t # "dict" THEN Raised("TypeError")
    ELSE LET c == Subscript(coms, "communities")
             a == Subscript(coms, "algorithm")
             p == Subscript(coms, "params")
             o == Subscript(coms, "overlap")
             v == Subscript(coms, "coverage")
             cs == TupleEach(Iter(c.val))
         IN IF c.exc # "" THEN Raised(c.exc)
            ELSE IF ~IsIterable(c.val) \/ IsRaise(cs) THEN Raised("TypeError")
            ELSE IF a.exc # "" THEN Raised(a.exc)
            ELSE IF p.exc # "" THEN Raised(p.exc)
            ELSE IF o.exc # "" THEN Raised(o.exc)
            ELSE IF v.exc # "" THEN Raised(v.exc)
            ELSE Reclassify(Construct(cs, a.val, p.val, o.val, v.val), coms)

\* read_community_from_json_string(json_repr), and read_community_json once
\* the text is read
ReadJsonText(text) ==
    LET parsed == JsonLoads(text)
    IN IF parsed.exc # "" THEN Raised(parsed.exc) ELSE ReadDoc(parsed.val)

\* ------------------------------------------------------------ state
Threads == {1, 2}

VARIABLES
    file,     \* the cells the destination holds
    pc,       \* pc[t]: where thread t is in its call
    op,       \* op[t]: the function thread t called last
    arg,      \* arg[t]: its arguments
    handle,   \* handle[t]: the file object of its with statement
    local,    \* local[t]: its local variables
    exc,      \* exc[t]: the exception its last call raised, "" for none
    ret,      \* ret[t]: what its last call returned
    wrote,    \* wrote[t]: the arguments of the last write call t returned from
    alone     \* alone[t]: no other write handle was open when t last opened
              \* the destination for writing, and none was opened since

vars == <<file, pc, op, arg, handle, local, exc, ret, wrote, alone>>

NoHandle == [open |-> FALSE, mode |-> "", pos |-> 0, buf |-> <<>>]
NoArg == [obj |-> NoResult, delimiter |-> <<>>, nodetype |-> "", json_repr |-> <<>>]
NoLocal == [text |-> <<>>, idx |-> 0, coms |-> PyNone, pending |-> ""]
NoWrite == [kind |-> "", obj |-> NoResult, delimiter |-> <<>>]

Writers == {"write_community_csv", "write_community_json"}

\* a write of data at offset pos: cells past the data stay, a gap is NUL
WriteAt(old, pos, data) ==
    IF data = <<>> THEN old
    ELSE
    [i \in 1..(IF Len(old) > pos + Len(data) THEN Len(old) ELSE pos + Len(data)) |->
        IF i > pos /\ i <= pos + Len(data) THEN data[i - pos]
        ELSE IF i <= Len(old) THEN old[i]
        ELSE Ch("NUL")]

InitWith(texts) ==
    /\ file \in texts
    /\ pc = [t \in Threads |-> "idle"]
    /\ op = [t \in Threads |-> ""]
    /\ arg = [t \in Threads |-> NoArg]
    /\ handle = [t \in Threads |-> NoHandle]
    /\ local = [t \in Threads |-> NoLocal]
    /\ exc = [t \in Threads |-> ""]
    /\ ret = [t \in Threads |-> NoResult]
    /\ wrote = [t \in Threads |-> NoWrite]
    /\ alone = [t \in Threads |-> FALSE]

\* ------------------------------------------------- call and return
Begin(t, name, first, a) ==
    /\ pc[t] \in {"idle", "done"}
    /\ op' = [op EXCEPT ![t] = name]
    /\ pc' = [pc EXCEPT ![t] = first]
    /\ arg' = [arg EXCEPT ![t] = a]
    /\ local' = [local EXCEPT ![t] = NoLocal]
    /\ exc' = [exc EXCEPT ![t] = ""]
    /\ ret' = [ret EXCEPT ![t] = NoResult]
    /\ UNCHANGED <<file, handle, wrote, alone>>

\* the call ends: it raises e (no value) or returns r
Finish(t, e, r) ==
    /\ pc' = [pc EXCEPT ![t] = "done"]
    /\ exc' = [exc EXCEPT ![t] = e]
    /\ ret' = [ret EXCEPT ![t] = IF e = "" THEN r ELSE NoResult]

CallWriteCsv(t, objs, delimiters) ==
    \E o \in objs, d \in delimiters :
        Begin(t, "write_community_csv", "open_w",
              [NoArg EXCEPT !.obj = o, !.delimiter = d])

CallReadCsv(t, delimiters, nodetypes) ==
    \E d \in delimiters, n \in nodetypes :
        Begin(t, "read_community_csv", "open_r",
              [NoArg EXCEPT !.delimiter = d, !.nodetype = n])

CallWriteJson(t, objs) ==
    \E o \in objs :
        Begin(t, "write_community_json", "build", [NoArg EXCEPT !.obj = o])

CallReadJson(t) ==
    Begin(t, "read_community_json", "open_r", NoArg)

CallReadJsonString(t, texts) ==
    \E s \in texts :
        Begin(t, "read_community_from_json_string", "loads",
              [NoArg EXCEPT !.json_repr = s])

\* ------------------------------------------------- the with statement
\* an open that cuts nothing, as mode "r+" would
TruncateNot(old) == old

\* what open(path, "w") leaves of the destination
Truncate(old) == <<>>

\* open(path, "w"): the destination is truncated, the offset is 0
OpenW(t) ==
    /\ pc[t] = "open_w"
    /\ file' = Truncate(file)
    /\ handle' = [handle EXCEPT ![t] = [open |-> TRUE, mode |-> "w", pos |-> 0, buf |-> <<>>]]
    /\ pc' = [pc EXCEPT ![t] =
                 IF op[t] = "write_community_csv" THEN "csv_loop" ELSE "json_write"]
    /\ alone' = [u \in Threads |->
                    /\ u = t
                    /\ \A w \in Threads \ {t} : ~(handle[w].open /\ handle[w].mode = "w")]
    /\ UNCHANGED <<op, arg, local, exc, ret, wrote>>

\* open(path) or open(path, "r")
OpenR(t) ==
    /\ pc[t] = "open_r"
    /\ handle' = [handle EXCEPT ![t] = [open |-> TRUE, mode |-> "r", pos |-> 0, buf |-> <<>>]]
    /\ pc' = [pc EXCEPT ![t] =
                 IF op[t] = "read_community_csv" THEN "csv_read" ELSE "json_load"]
    /\ UNCHANGED <<file, op, arg, local, exc, ret, wrote, alone>>

\* open raises OSError: no handle, the destination untouched
OpenFails(t) ==
    /\ pc[t] \in {"open_w", "open_r"}
    /\ Finish(t, "OSError", NoResult)
    /\ UNCHANGED <<file, op, arg, handle, local, wrote, alone>>

\* a read or write inside the with block raises OSError
IOError(t) ==
    /\ pc[t] \in {"csv_loop", "json_write", "csv_read", "json_load"}
    /\ local' = [local EXCEPT ![t].pending = "OSError"]
    /\ pc' = [pc EXCEPT ![t] = "exit"]
    /\ UNCHANGED <<file, op, arg, handle, exc, ret, wrote, alone>>

\* the buffered writer empties its buffer into the destination when the
\* buffer fills, which any write may cause
Flush(t) ==
    /\ handle[t].open /\ handle[t].mode = "w" /\ handle[t].buf # <<>>
    /\ file' = WriteAt(file, handle[t].pos, handle[t].buf)
    /\ handle' = [handle EXCEPT ![t].pos = @ + Len(handle[t].buf), ![t].buf = <<>>]
    /\ UNCHANGED <<pc, op, arg, local, exc, ret, wrote, alone>>

\* a close() placed after the block's body, which an exception skips
ReleaseUnlessRaised(h, pending) == IF pending # "" THEN h ELSE NoHandle

\* the handle after __exit__: closed on every way out of the block
Release(h, pending) == NoHandle

\* what the call does once the block is left without an exception
AfterWith(t) ==
    CASE op[t] \in Writers ->
            /\ Finish(t, "", NoResult)
            /\ wrote' = [wrote EXCEPT ![t] =
                  [kind |-> op[t], obj |-> arg[t].obj, delimiter |-> arg[t].delimiter]]
      [] op[t] = "read_community_csv" ->
            /\ Finish(t, "", NodeClustering(local[t].coms, PyStrV(<<>>), PyNone, PyBool(FALSE)))
            /\ UNCHANGED wrote
      [] OTHER ->
            /\ pc' = [pc EXCEPT ![t] = "post"]
            /\ UNCHANGED <<exc, ret, wrote>>

\* __exit__: close() writes out what is buffered (after an OSError the
\* buffered cells may be lost instead) and releases the handle; an exception
\* of the block goes on to the caller
WithExit(t) ==
    /\ pc[t] = "exit"
    /\ \/ file' = WriteAt(file, handle[t].pos, handle[t].buf)
       \/ local[t].pending = "OSError" /\ file' = file
    /\ handle' = [handle EXCEPT ![t] = Release(handle[t], local[t].pending)]
    /\ IF local[t].pending # ""
       THEN Finish(t, local[t].pending, NoResult) /\ UNCHANGED wrote
       ELSE AfterWith(t)
    /\ UNCHANGED <<op, arg, local, alone>>

\* ------------------------------------------- write_community_csv, 26-28
\* one turn of the for loop: the next community joined and written (to the
\* handle's buffer), or the loop's end, or the exception the turn raises
CsvLoop(t) ==
    /\ pc[t] = "csv_loop"
    /\ LET obj == arg[t].obj
           cs == Iter(obj.communities)
           i == local[t].idx
           leave(e) == /\ local' = [local EXCEPT ![t].pending = e]
                       /\ pc' = [pc EXCEPT ![t] = "exit"]
                       /\ UNCHANGED handle
       IN IF "communities" \in obj.absent THEN leave("AttributeError")
          ELSE IF ~IsIterable(obj.communities) THEN leave("TypeError")
          ELSE IF i = Len(cs) THEN leave("")
          ELSE IF ~IsIterable(cs[i + 1]) THEN leave("TypeError")
          ELSE /\ handle' = [handle EXCEPT ![t].buf = @ \o CsvLine(cs[i + 1], arg[t].delimiter)]
               /\ local' = [local EXCEPT ![t].idx = i + 1]
               /\ UNCHANGED pc
    /\ UNCHANGED <<file, op, arg, exc, ret, wrote, alone>>

\* -------------------------------------------- read_community_csv, 52-54
\* the for loop over the rows of the file; the file is shorter than the
\* chunk the text layer reads, so the first turn reads all of it
CsvRead(t) ==
    /\ pc[t] = "csv_read"
    /\ LET coms == CsvCommunities(file, arg[t].delimiter, arg[t].nodetype)
       IN local' = [local EXCEPT ![t].text = file,
                                 ![t].coms = IF IsRaise(coms) THEN PyNone ELSE coms,
                                 ![t].pending = IF IsRaise(coms) THEN coms.v ELSE ""]
    /\ pc' = [pc EXCEPT ![t] = "exit"]
    /\ UNCHANGED <<file, op, arg, handle, exc, ret, wrote, alone>>

\* ------------------------------------------ write_community_json, 76-86
\* the mapping built and serialized inside the with block, as
\* write_community_csv converts inside its block
JsonBuildAfterOpen(t) ==
    /\ pc[t] = "build"
    /\ LET d == JsDmp(arg[t].obj)
       IN IF d.exc # ""
          THEN Finish(t, d.exc, NoResult) /\ UNCHANGED local
          ELSE /\ local' = [local EXCEPT ![t].text = d.text]
               /\ pc' = [pc EXCEPT ![t] = "open_w"]
               /\ UNCHANGED <<exc, ret>>
    /\ file' = Truncate(file)
    /\ UNCHANGED <<op, arg, handle, wrote, alone>>

\* lines 76-84: the mapping is built and serialized; an exception here ends
\* the call before open()
JsonBuild(t) ==
    /\ pc[t] = "build"
    /\ LET d == JsDmp(arg[t].obj)
       IN IF d.exc # ""
          THEN Finish(t, d.exc, NoResult) /\ UNCHANGED local
          ELSE /\ local' = [local EXCEPT ![t].text = d.text]
               /\ pc' = [pc EXCEPT ![t] = "open_w"]
               /\ UNCHANGED <<exc, ret>>
    /\ UNCHANGED <<file, op, arg, handle, wrote, alone>>

\* line 86: f.write(js_dmp)
JsonWrite(t) ==
    /\ pc[t] = "json_write"
    /\ handle' = [handle EXCEPT ![t].buf = @ \o local[t].text]
    /\ pc' = [pc EXCEPT ![t] = "exit"]
    /\ UNCHANGED <<file, op, arg, local, exc, ret, wrote, alone>>

\* ------------------------------------------- read_community_json, 106-127
\* line 107: json.load(f)
JsonLoad(t) ==
    /\ pc[t] = "json_load"
    /\ LET parsed == JsonLoads(file)
       IN local' = [local EXCEPT ![t].text = file,
                                 ![t].coms = parsed.val,
                                 ![t].pending = parsed.exc]
    /\ pc' = [pc EXCEPT ![t] = "exit"]
    /\ UNCHANGED <<file, op, arg, handle, exc, ret, wrote, alone>>

\* lines 109-127, after the with block
JsonPost(t) ==
    /\ pc[t] = "post"
    /\ LET r == ReadDoc(local[t].coms) IN Finish(t, r.exc, r.nc)
    /\ UNCHANGED <<file, op, arg, handle, local, wrote, alone>>

\* --------------------------- read_community_from_json_string, 149-169
LoadsString(t) ==
    /\ pc[t] = "loads"
    /\ LET r == ReadJsonText(arg[t].json_repr) IN Finish(t, r.exc, r.nc)
    /\ local' = [local EXCEPT ![t].text = arg[t].json_repr]
    /\ UNCHANGED <<file, op, arg, handle, wrote, alone>>

\* ------------------------------------------------------- the inputs
\* ids cut into consecutive non-empty communities, a cut after i when cuts[i]
RECURSIVE Groups(_, _)
Groups(ids, cuts) ==
    IF ids = <<>> THEN <<>>
    ELSE LET n == Len(ids)
             at == {i \in 1..(n - 1) : cuts[i]}
             k == IF at = {} THEN n ELSE CHOOSE i \in at : \A j \in at : i <= j
         IN <<SubSeq(ids, 1, k)>>
            \o Groups(SubSeq(ids, k + 1, n), [i \in 1..(n - k - 1) |-> cuts[i + k]])

\* every way to write up to n identifiers of S as a list of communities
Partitions(S, n) ==
    UNION {UNION {{Groups(ids, cuts) : cuts \in [1..(k - 1) -> BOOLEAN]} :
                  ids \in [1..k -> S]} : k \in 1..n}

TupleComs(groups) == PyList([i \in 1..Len(groups) |-> PyTuple(groups[i])])
ListComs(groups) == PyList([i \in 1..Len(groups) |-> PyList(groups[i])])

Plain(communities) ==
    Clustering("NodeClustering", communities, Word("louvain"), PyDict(<<>>),
               PyBool(FALSE), PyFloat(9), {"allocation_matrix"}, PyNone)

\* CSV: string identifiers over characters that include the delimiters
IdChars == {Ch("a"), Ch("1"), Ch(" "), Ch(",")}
CsvIds(len) == {PyStrV(s) : s \in SeqsUpTo(IdChars, len)}
Delimiters == {<<Ch(",")>>, <<Ch(" ")>>}
Nodetypes == {"str", "int"}
CsvObjects(len, n) ==
    {Plain(TupleComs(g)) : g \in Partitions(CsvIds(len), n)}
    \cup {Plain(PyList(<<>>)), Plain(PyList(<<PyTuple(<<>>)>>)),
          Plain(PyList(<<PyTuple(<<PyInt(1), PyInt(12)>>), PyTuple(<<PyInt(3)>>)>>))}
CsvTexts(n) == SeqsUpTo(IdChars \cup {NL}, n)

\* JSON: partitions of scalar identifiers, as tuples or as lists, and the
\* method_parameters an algorithm may record
JsonScalars == {PyInt(1), Word("a"), PyBool(TRUE)}
ParamSamples ==
    {PyNone, PyDict(<<>>),
     PyDict(<<Item(Word("k"), PyInt(1))>>),
     PyDict(<<Item(Word("k"), PyList(<<PyInt(1), PyInt(2)>>))>>),
     PyDict(<<Item(Word("k"), PyTuple(<<PyInt(1), PyInt(2)>>))>>),
     PyDict(<<Item(PyInt(1), Word("a"))>>)}
Edge12 == PyTuple(<<PyInt(1), PyInt(2)>>)
Edge23 == PyTuple(<<PyInt(2), PyInt(3)>>)
Matrix == PyDict(<<Item(Word("1"), PyList(<<PyFloat(5), PyFloat(5)>>))>>)
Fuzzy(communities) ==
    [Plain(communities) EXCEPT !.cls = "FuzzyNodeClustering", !.absent = {},
                               !.allocation_matrix = Matrix]
JsonObjects ==
    {[Plain(c) EXCEPT !.method_parameters = p] :
        c \in {TupleComs(g) : g \in Partitions(JsonScalars, MaxNodes)}
              \cup {ListComs(g) : g \in Partitions(JsonScalars, MaxNodes)},
        p \in ParamSamples}
    \cup {[Plain(TupleComs(<<<<PyInt(1), PyInt(2)>>, <<PyInt(3)>>>>))
              EXCEPT !.overlap = PyBool(TRUE), !.node_coverage = PyNone,
                     !.method_name = PyStrV(<<>>)],
          Fuzzy(TupleComs(<<<<PyInt(1), PyInt(2)>>, <<PyInt(3)>>>>)),
          [Plain(TupleComs(<<<<Edge12, Edge23>>>>)) EXCEPT !.cls = "EdgeClustering"],
          [Fuzzy(TupleComs(<<<<Edge12, Edge23>>>>)) EXCEPT !.cls = "EdgeClustering"],
          Plain(PyList(<<>>)),
          Plain(PyList(<<PyTuple(<<>>)>>)),
          Plain(TupleComs(<<<<PyInt(1), PyObject>>>>)),
          [Plain(TupleComs(<<<<PyInt(1)>>>>)) EXCEPT !.absent = {"allocation_matrix", "node_coverage"}]}

\* JSON documents a reader may be given: every shape of communities the
\* readers tell apart, every subset of the required keys, allocation_matrix
\* absent, first or last; and texts that are no object or no JSON
RequiredKeys == {"communities", "algorithm", "params", "overlap", "coverage"}
Arr(s) == PyList(s)
ComShapes ==
    {Arr(<<>>),
     Arr(<<Arr(<<>>)>>),
     Arr(<<Arr(<<PyInt(1), PyInt(2)>>), Arr(<<PyInt(3)>>)>>),
     Arr(<<Arr(<<Arr(<<PyInt(1), PyInt(2)>>), Arr(<<PyInt(2), PyInt(3)>>)>>)>>),
     Arr(<<Arr(<<Arr(<<PyInt(1), PyInt(2), PyInt(3)>>)>>)>>),
     Arr(<<Arr(<<Arr(<<PyInt(1), PyInt(2)>>)>>), Arr(<<PyInt(3)>>)>>),
     Arr(<<Arr(<<PyInt(1)>>), Arr(<<Arr(<<PyInt(1), PyInt(2)>>)>>)>>),
     Arr(<<Arr(<<Arr(<<PyInt(1), PyInt(2)>>), PyStrV(Chars(<<"a", "b", "c">>))>>)>>),
     Arr(<<Arr(<<PyDict(<<Item(Word("k"), PyInt(1))>>)>>)>>),
     PyStrV(Chars(<<"a", "b">>)),
     PyInt(5)}
Document(communities, keys, matrix) ==
    LET all == <<Item(Word("communities"), communities),
                 Item(Word("algorithm"), Word("louvain")),
                 Item(Word("params"), PyDict(<<>>)),
                 Item(Word("overlap"), PyBool(FALSE)),
                 Item(Word("coverage"), PyFloat(9))>>
        Keep(it) == \E k \in keys : it.k = Word(k)
        kept == SelectSeq(all, Keep)
        m == <<Item(Word("allocation_matrix"), Matrix)>>
    IN PyDict(CASE matrix = "first" -> m \o kept
                [] matrix = "last" -> kept \o m
                [] OTHER -> kept)
DocTexts ==
    {Encode(Document(c, keys, m)) :
        c \in ComShapes, keys \in SUBSET RequiredKeys, m \in {"", "first", "last"}}
    \cup {Encode(Arr(<<PyInt(1)>>)), Encode(PyInt(5)), <<Ch("{")>>, <<>>}

\* ------------------------------------------- the CSV functions alone
\* thread 1 writes a partition to the destination as its first call, or
\* reads whatever the destination holds
InitCsv == InitWith(CsvTexts(MaxText))

NextCsv ==
    \/ op[1] = "" /\ CallWriteCsv(1, CsvObjects(MaxIdLen, MaxIds), Delimiters)
    \/ CallReadCsv(1, Delimiters, Nodetypes)
    \/ OpenW(1) \/ OpenR(1) \/ OpenFails(1)
    \/ CsvLoop(1) \/ CsvRead(1)
    \/ Flush(1) \/ IOError(1) \/ WithExit(1)

SpecCsv == InitCsv /\ [][NextCsv]_vars

\* ------------------------------------------ the JSON functions alone
\* thread 1 writes a partition to the empty destination as its first call,
\* or reads the document the destination holds, from the file or (as in
\* the docstring of read_community_from_json_string) from its text
InitJson == InitWith(DocTexts)

NextJson ==
    \/ op[1] = "" /\ file = <<>> /\ CallWriteJson(1, JsonObjects)
    \/ CallReadJson(1)
    \/ CallReadJsonString(1, {file})
    \/ OpenW(1) \/ OpenR(1) \/ OpenFails(1)
    \/ JsonBuild(1) \/ JsonWrite(1) \/ JsonLoad(1) \/ JsonPost(1) \/ LoadsString(1)
    \/ Flush(1) \/ IOError(1) \/ WithExit(1)

SpecJson == InitJson /\ [][NextJson]_vars

\* ------------------------------------ two callers, one destination
\* thread 1 calls the five functions on one path, any number of times, while
\* thread 2 writes to the same path, any number of times, in any interleaving
StrId(c) == PyStrV(<<Ch(c)>>)
LongObject == Plain(TupleComs(<<<<StrId("a"), StrId("1")>>, <<StrId("1")>>>>))
ShortObject == Plain(TupleComs(<<<<StrId("1")>>>>))
\* the second community is no sequence
BrokenObject == Plain(PyList(<<PyTuple(<<StrId("a")>>), PyInt(5)>>))
\* an identifier json.dumps cannot encode
OpaqueObject == Plain(TupleComs(<<<<PyInt(1), PyObject>>>>))
\* a clustering without node_coverage
BareObject == [ShortObject EXCEPT !.absent = {"allocation_matrix", "node_coverage"}]
CsvShared == {LongObject, BrokenObject}
JsonShared == {LongObject, OpaqueObject, BareObject}
SharedTexts == {JsDmp(ShortObject).text, <<Ch("{")>>}

Init == InitWith({<<>>})

Next ==
    \/ CallWriteCsv(1, CsvShared, {<<Ch(",")>>})
    \/ CallReadCsv(1, {<<Ch(",")>>}, Nodetypes)
    \/ CallWriteJson(1, JsonShared)
    \/ CallReadJson(1)
    \/ CallReadJsonString(1, SharedTexts)
    \/ CallWriteCsv(2, {ShortObject}, {<<Ch(",")>>})
    \/ CallWriteJson(2, {ShortObject})
    \/ \E t \in Threads :
        \/ OpenW(t) \/ OpenR(t) \/ OpenFails(t)
        \/ CsvLoop(t) \/ CsvRead(t)
        \/ JsonBuild(t) \/ JsonWrite(t) \/ JsonLoad(t) \/ JsonPost(t) \/ LoadsString(t)
        \/ Flush(t) \/ IOError(t) \/ WithExit(t)

Spec == Init /\ [][Next]_vars

\* ============================================== the JSON readers' claims
JsonReaders == {"read_community_json", "read_community_from_json_string"}
Scalars == {"int", "float", "str", "bool", "none"}

\* thread t's last call was a JSON reader that got its text
HasRead(t) == pc[t] = "done" /\ op[t] \in JsonReaders /\ exc[t] # "OSError"

\* the document it parsed
DocOf(t) == JsonLoads(local[t].text)
IsObject(t) == DocOf(t).exc = "" /\ DocOf(t).val.t = "dict"
HasKey(t, key) == DictHas(DocOf(t).val, Word(key))
Field(t, key) == DictGet(DocOf(t).val, Word(key))
HasRequired(t) == \A k \in RequiredKeys : HasKey(t, k)

\* communities is a non-empty array of arrays, the first of them non-empty
ArrayOfArrays(x) ==
    /\ x.t = "list" /\ x.v # <<>>
    /\ \A i \in 1..Len(x.v) : x.v[i].t = "list"
    /\ x.v[1].v # <<>>
FirstIsArray(x) == ArrayOfArrays(x) /\ x.v[1].v[1].t = "list"
AllArrays(x) == \A i \in 1..Len(x.v) : \A j \in 1..Len(x.v[i].v) : x.v[i].v[j].t = "list"

\* a value json.loads returns as it was written: no tuple, no key but a str
RECURSIVE JsonNative(_)
JsonNative(x) ==
    CASE x.t \in Scalars -> TRUE
      [] x.t = "list" -> \A i \in 1..Len(x.v) : JsonNative(x.v[i])
      [] x.t = "dict" ->
            \A i \in 1..Len(x.v) : x.v[i].k.t = "str" /\ JsonNative(x.v[i].x)
      [] OTHER -> FALSE

\* the communities, each as a tuple
AsTuples(communities) ==
    PyList([i \in 1..Len(Iter(communities)) |-> PyTuple(Iter(Iter(communities)[i]))])

\* an object of the plain variant: no allocation_matrix, at least one
\* community, every community a non-empty sequence of scalars, scalar metadata
PlainScalarPartition(obj) ==
    /\ obj.absent = {"allocation_matrix"}
    /\ obj.communities.t \in {"list", "tuple"} /\ obj.communities.v # <<>>
    /\ \A i \in 1..Len(obj.communities.v) :
          LET c == obj.communities.v[i]
          IN /\ c.t \in {"list", "tuple"} /\ c.v # <<>>
             /\ \A j \in 1..Len(c.v) : c.v[j].t \in Scalars
    /\ obj.method_name.t \in Scalars
    /\ obj.overlap.t \in Scalars
    /\ obj.node_coverage.t \in Scalars

\* thread t wrote obj with write_community_json and then read the same path
\* back with read_community_json, which got the text written
ReadBackJson(t) ==
    /\ pc[t] = "done" /\ op[t] = "read_community_json" /\ exc[t] # "OSError"
    /\ wrote[t].kind = "write_community_json"
    /\ local[t].text = JsDmp(wrote[t].obj).text

\* C1 as stated: the JSON round trip of a plain partition of scalar
\* identifiers returns a plain NodeClustering with the written communities
\* (each as a tuple, in order) and the written method_name,
\* method_parameters, overlap and node_coverage.
C1_RoundTripAsStated ==
    \A t \in Threads :
        (ReadBackJson(t) /\ PlainScalarPartition(wrote[t].obj)) =>
            /\ exc[t] = ""
            /\ ret[t].cls = "NodeClustering"
            /\ ret[t].communities = AsTuples(wrote[t].obj.communities)
            /\ ret[t].method_name = wrote[t].obj.method_name
            /\ ret[t].method_parameters = wrote[t].obj.method_parameters
            /\ ret[t].overlap = wrote[t].obj.overlap
            /\ ret[t].node_coverage = wrote[t].obj.node_coverage

\* C1 amended: the same, with method_parameters equal to the written value
\* when that value holds no tuple and no key that is not a string (a tuple
\* is read back as a list, a key as its JSON text).
C1_RoundTrip ==
    \A t \in Threads :
        (ReadBackJson(t) /\ PlainScalarPartition(wrote[t].obj)) =>
            /\ exc[t] = ""
            /\ ret[t].cls = "NodeClustering"
            /\ "allocation_matrix" \in ret[t].absent
            /\ ret[t].communities = AsTuples(wrote[t].obj.communities)
            /\ ret[t].method_name = wrote[t].obj.method_name
            /\ ret[t].overlap = wrote[t].obj.overlap
            /\ ret[t].node_coverage = wrote[t].obj.node_coverage
            /\ JsonNative(wrote[t].obj.method_parameters) =>
                  ret[t].method_parameters = wrote[t].obj.method_parameters

C1_Witness ==
    \E t \in Threads :
        /\ ReadBackJson(t) /\ PlainScalarPartition(wrote[t].obj)
        /\ Len(wrote[t].obj.communities.v) = 2
        /\ wrote[t].obj.communities.v[1].t = "list"
        /\ wrote[t].obj.method_parameters = PyDict(<<Item(Word("k"), PyList(<<PyInt(1), PyInt(2)>>))>>)
        /\ ret[t].communities.v[1].t = "tuple"
        /\ ret[t].node_coverage = PyFloat(9)

C5_EmptyCommunitiesRejected ==
    \A t \in Threads :
        (/\ HasRead(t) /\ IsObject(t) /\ HasRequired(t)
         /\ Field(t, "communities") = Arr(<<>>)) =>
            exc[t] # "" /\ exc[t] # "IndexError"

\* C6: reading a JSON document that lacks one of the five required keys
\* ends in an error (KeyError; TypeError when the communities it does hold
\* cannot be iterated) and returns no partition: no absent key is replaced
\* by a default.
C6_MissingKey ==
    \A t \in Threads :
        (HasRead(t) /\ IsObject(t) /\ ~HasRequired(t)) =>
            /\ exc[t] \in {"KeyError", "TypeError"}
            /\ ret[t] = NoResult
            /\ (~HasKey(t, "communities") \/ ArrayOfArrays(Field(t, "communities"))) =>
                  exc[t] = "KeyError"

C6_Witness ==
    \E t \in Threads :
        /\ HasRead(t) /\ IsObject(t) /\ op[t] = "read_community_json"
        /\ {k \in RequiredKeys : ~HasKey(t, k)} = {"algorithm"}
        /\ Field(t, "communities") = Arr(<<Arr(<<PyInt(1), PyInt(2)>>), Arr(<<PyInt(3)>>)>>)
        /\ exc[t] = "KeyError"
        /\ ret[t] = NoResult

\* ================================================== the CSV claims
Contains(s, d) == \E i \in 1..Len(s) : IsPrefixAt(s, d, i)

\* at least one community, every community a non-empty sequence of string
\* identifiers that hold neither the delimiter nor a line terminator
CsvSafe(communities, delimiter) ==
    /\ communities.t \in {"list", "tuple"} /\ communities.v # <<>>
    /\ \A i \in 1..Len(communities.v) :
          LET c == communities.v[i]
          IN /\ c.t \in {"list", "tuple"} /\ c.v # <<>>
             /\ \A j \in 1..Len(c.v) :
                   /\ c.v[j].t = "str"
                   /\ ~Contains(c.v[j].v, delimiter)
                   /\ ~Contains(c.v[j].v, <<NL>>)
                   /\ ~Contains(c.v[j].v, <<Ch("\r")>>)

\* thread t wrote with write_community_csv and then read the same path
\* back with read_community_csv, which got the text written
ReadBackCsv(t) ==
    /\ pc[t] = "done" /\ op[t] = "read_community_csv" /\ exc[t] = ""
    /\ wrote[t].kind = "write_community_csv"
    /\ local[t].text = CsvText(wrote[t].obj.communities, wrote[t].delimiter)

\* C2: write_community_csv then read_community_csv with the same delimiter
\* and nodetype str returns the written communities, community by community
\* and identifier by identifier, when no identifier holds the delimiter or
\* a line terminator.
C2_CsvRoundTrip ==
    \A t \in Threads :
        (/\ ReadBackCsv(t)
         /\ arg[t].nodetype = "str"
         /\ arg[t].delimiter = wrote[t].delimiter
         /\ CsvSafe(wrote[t].obj.communities, wrote[t].delimiter)) =>
            ret[t].communities = AsTuples(wrote[t].obj.communities)

\* str.rstrip("\n"): only the line's trailing newline goes
RStripNewline(s) ==
    IF s # <<>> /\ s[Len(s)] = NL THEN SubSeq(s, 1, Len(s) - 1) ELSE s

\* the entry the claim gives a line
ClaimedCommunity(row, delimiter, nodetype) ==
    LET toks == Split(RStripNewline(row), delimiter)
    IN PyTuple([i \in 1..Len(toks) |-> ApplyNodetype(nodetype, toks[i])])

\* C7: read_community_csv returns one entry per non-empty line, in file
\* order, each the tuple of nodetype applied to the tokens left by removing
\* only the line's trailing newline and splitting on the delimiter (stated
\* for sources without empty lines).
C7_CsvLines ==
    \A t \in Threads :
        (/\ pc[t] = "done" /\ op[t] = "read_community_csv" /\ exc[t] = ""
         /\ \A i \in 1..Len(Rows(local[t].text)) :
               RStripNewline(Rows(local[t].text)[i]) # <<>>) =>
            LET rows == Rows(local[t].text)
            IN ret[t].communities =
                  PyList([i \in 1..Len(rows) |->
                             ClaimedCommunity(rows[i], arg[t].delimiter, arg[t].nodetype)])

\* ===================================== the claims about the destination
\* the pc values inside a with block: between open() and __exit__
InsideWith == {"csv_loop", "json_write", "csv_read", "json_load", "exit"}

\* C8: in write_community_csv, read_community_csv, write_community_json and
\* read_community_json a handle opened by the call is closed by the time
\* the call ends, on every exit path (return, OSError of a read or write,
\* ValueError of nodetype, JSONDecodeError): a thread that is outside a
\* with block, and so every thread between calls, holds no open handle.
C8_HandleReleased ==
    \A t \in Threads : pc[t] \notin InsideWith => ~handle[t].open

C8_Witness ==
    /\ pc[1] = "done" /\ op[1] = "read_community_csv" /\ exc[1] = "ValueError"
    /\ pc[2] = "done" /\ op[2] = "write_community_csv" /\ exc[2] = "OSError"
    /\ \A t \in Threads : ~handle[t].open

\* everything the write call of thread t hands to f.write
OutputOf(t) ==
    IF op[t] = "write_community_csv"
    THEN CsvText(arg[t].obj.communities, arg[t].delimiter)
    ELSE JsDmp(arg[t].obj).text

Completed(t) == pc[t] = "done" /\ op[t] \in Writers /\ exc[t] = ""

\* C9 as stated: once two write calls on the same destination have both
\* completed, the destination holds exactly the complete output of one of
\* them, in every interleaving.
C9_LastWriterWinsAsStated ==
    (\A t \in Threads : Completed(t)) => \E t \in Threads : file = OutputOf(t)

\* C9 amended: a completed write call leaves exactly its complete output in
\* the destination when no other write handle was open while it held its
\* own (the two calls did not overlap) and no write call has opened the
\* destination since; so of two write calls that do not overlap the later
\* one wins.  Calls that overlap may leave a mixture.
C9_LastWriterWins ==
    \A t \in Threads : (Completed(t) /\ alone[t]) => file = OutputOf(t)

C9_Witness ==
    /\ Completed(1) /\ Completed(2) /\ alone[2]
    /\ op[1] = "write_community_csv" /\ op[2] = "write_community_csv"
    /\ Len(OutputOf(1)) > Len(OutputOf(2))
    /\ file = OutputOf(2)

\* C10: write_community_json builds and serializes the document before it
\* opens the destination: the step that leaves lines 76-84 is taken with no
\* handle open, opens none and leaves the destination as it was, and it
\* ends the call, with AttributeError or TypeError, exactly when reading a
\* field or json.dumps fails.
C10_JsonBuildBeforeOpen ==
    [][\A t \in Threads :
          (op[t] = "write_community_json" /\ pc[t] = "build" /\ pc'[t] # "build") =>
              /\ ~handle[t].open /\ ~handle'[t].open
              /\ file' = file
              /\ pc'[t] = "done" <=> JsDmp(arg[t].obj).exc # ""
              /\ pc'[t] = "done" => exc'[t] \in {"AttributeError", "TypeError"}]_vars

C10_Witness ==
    /\ pc[1] = "done" /\ op[1] = "write_community_json" /\ exc[1] = "TypeError"
    /\ op[2] = ""
    /\ wrote[1].kind = "write_community_csv"
    /\ file # <<>>
    /\ file = CsvText(wrote[1].obj.communities, wrote[1].delimiter)

=============================================================================
